---- MODULE Spec2Model ----
(***************************************************************************)
(* A model of the noise-rs Perlin kernel and RidgedMulti fractal module:   *)
(*   src/src/modules/generators/perlin.rs                                  *)
(*   src/src/modules/generators/fractals/mod.rs                            *)
(*   src/src/modules/generators/fractals/ridgedmulti.rs                    *)
(*                                                                         *)
(* Numbers.  usize is modelled as an unsigned machine word of UsizeBits    *)
(* bits (Rust guarantees only that usize is at least 16 bits wide).        *)
(* Values of the float type T are fixed-point: an integer n stands for     *)
(* n / One.  The finite resolution of f32 is pictured by a grid: f32 holds *)
(* the multiples of Sub, the wider f64 every integer, so a conversion      *)
(* f64 -> f32 rounds to the nearest f32, as `as f32` does.                 *)
(***************************************************************************)
EXTENDS Integers, Sequences, FiniteSets, TLC

VARIABLES
    rm,               \* the current RidgedMulti<T> value (builder chain)
    overflow_checks,  \* the build panics on integer overflow (debug) or wraps
    panicked,         \* a builder call aborted the program
    last,             \* the last builder call: its name, argument and effect
    perlin,           \* a Perlin value (its own builder chain)
    point,            \* the point of the last Perlin evaluation
    out,              \* the outcome of the last Perlin evaluation
    float,            \* the float type T of RidgedMulti<T>: "f32" or "f64"
    ev,               \* the RidgedMulti evaluation in progress, if any
    seen              \* history: one earlier evaluation of the current value

rvars == <<rm, overflow_checks, panicked, last>>
pvars == <<perlin, point, out>>
evars == <<float, ev, seen>>
vars == <<rm, overflow_checks, panicked, last, perlin, point, out, float, ev, seen>>

-----------------------------------------------------------------------------
(* Bounds of the model *)

UsizeBits == 16
F32Scale == 2
Sub == 4

PQ == 2
MaxCoord == 1
MaxPerlinPeriod == 3
MaxEvalOctaves == 3

UsizeMax == 2^UsizeBits - 1
One == F32Scale * Sub

(* Program constants *)
DEFAULT_PERLIN_SEED == 0
DEFAULT_PERLIN_PERIOD == 256
DEFAULT_RIDGED_SEED == 0
DEFAULT_RIDGED_OCTAVE_COUNT == 6
DEFAULT_RIDGED_PERIOD == 256
RIDGED_MAX_OCTAVES == 32
DEFAULT_RIDGED_FREQUENCY == One
DEFAULT_RIDGED_LACUNARITY == 2 * One
DEFAULT_RIDGED_PERSISTENCE == One
DEFAULT_RIDGED_GAIN == 2 * One

(* Arguments the builder calls are tried with *)
Seeds == {1, UsizeMax}
OctaveRequests == {0, 3, 1000}
Lacunarities == {-One, One \div 2, (3 * One) \div 2, 2 * One}
Periods == {0, 3, DEFAULT_RIDGED_PERIOD}
Frequencies == {2 * One}
Persistences == {One \div 2}
Gains == {One}

(* Perlin evaluation: a coordinate c stands for c / PQ *)
Coords == (-MaxCoord * PQ) .. (MaxCoord * PQ)
Points2 == {<<x, y>> : x \in Coords, y \in Coords}
Points3 == {<<x, y, z>> : x \in Coords, y \in Coords, z \in Coords}
Coords4 == {-1, 0, 1, PQ}
Points4 == {<<x, y, z, w>> : x \in Coords4, y \in Coords4, z \in Coords4, w \in Coords4}
PerlinSeeds == {0, 7}
PerlinPeriods == 0 .. MaxPerlinPeriod

(* RidgedMulti evaluation: values of T in units of 1/One *)
Half == (F32Scale \div 2) * Sub
FloatTypes == {"f32", "f64"}
EvalOctaves == 1 .. MaxEvalOctaves
EvalGains == {-One, One, One + 1, One + Sub, 2 * One}
EvalPersistences == {Half, One}
EvalDims == {2, 3, 4}
EvalLacunarities == {One, 2 * One}
EvalCoords == {0, Half}

-----------------------------------------------------------------------------
(* Results of operations that may panic *)

Ok(v) == [ok |-> TRUE, val |-> v]
Panic == [ok |-> FALSE]

(* usize addition in a build without overflow checks *)
UsizeAdd(a, b) == (a + b) % (UsizeMax + 1)

(* `seed as u32`: keeps the low 32 bits; a widening conversion when usize
   is narrower than 32 bits *)
AsU32(x) == IF UsizeBits <= 32 THEN x ELSE x % (2^16 * 2^16)

(* math::cast::<usize, T>: the integer as a float *)
CastUsizeToFloat(n) == n * One

(* math::cast::<T, usize>: the float truncated toward zero; the conversion
   fails (unwrap panics) when the value does not fit usize *)
CastFloatToUsize(v) ==
    IF v <= -One \/ v >= (UsizeMax + 1) * One THEN Panic
    ELSE IF v < 0 THEN Ok(0)
    ELSE Ok(v \div One)

(* period as T, times lacunarity: T * T *)
FloatMul(a, b) == (a * b) \div One

-----------------------------------------------------------------------------
(* Perlin: src/src/modules/generators/perlin.rs *)

(* PermutationTable::new(seed): the table is a function of the seed alone *)
PermutationTable_new(seed32) == [table_seed |-> seed32]

Perlin_new ==
    [perm_table |-> PermutationTable_new(AsU32(DEFAULT_PERLIN_SEED)),
     seed |-> DEFAULT_PERLIN_SEED,
     period |-> DEFAULT_PERLIN_PERIOD,
     enable_period |-> FALSE]

Perlin_set_seed(self, seed) ==
    [self EXCEPT !.perm_table = PermutationTable_new(AsU32(seed)),
                 !.seed = seed]

Perlin_set_period(self, period) ==
    [self EXCEPT !.period = period, !.enable_period = TRUE]

-----------------------------------------------------------------------------
(* The lookup table, the gradient sets and the integer helpers of math are
   not in the source files at hand; they are modelled from the
   specification (sections 3, 4.1, 4.2). *)

TableSize == 256

(* entry i of the table built from a seed: a permutation of 0..TableSize-1 *)
PermValue(table, i) == (37 * (i % TableSize) + 11 * table.table_seed + 5) % TableSize

(* hash: fold the coordinates left to right through the table *)
PermutationTable_get2(table, pos) ==
    PermValue(table, PermValue(table, pos[1]) + pos[2])

PermutationTable_get3(table, pos) ==
    PermValue(table, PermValue(table, PermValue(table, pos[1]) + pos[2]) + pos[3])

PermutationTable_get4(table, pos) ==
    PermValue(table,
              PermValue(table, PermValue(table, PermValue(table, pos[1]) + pos[2]) + pos[3])
                  + pos[4])

(* gradient sets: directions selected by the hash modulo the set size *)
Gradients2 ==
    << <<1, 0>>, <<-1, 0>>, <<0, 1>>, <<0, -1>>,
       <<1, 1>>, <<-1, 1>>, <<1, -1>>, <<-1, -1>> >>

Gradients3 ==
    << <<1, 1, 0>>, <<-1, 1, 0>>, <<1, -1, 0>>, <<-1, -1, 0>>,
       <<1, 0, 1>>, <<-1, 0, 1>>, <<1, 0, -1>>, <<-1, 0, -1>>,
       <<0, 1, 1>>, <<0, -1, 1>>, <<0, 1, -1>>, <<0, -1, -1>> >>

(* the 32 directions with one zero coordinate and three of +1 / -1 *)
Gradients4 ==
    [n \in 1 .. 32 |->
        LET zero == ((n - 1) \div 8) + 1
            signs == (n - 1) % 8
        IN  [k \in 1 .. 4 |->
                IF k = zero THEN 0
                ELSE LET bit == IF k < zero THEN k - 1 ELSE k - 2
                     IN  IF (signs \div (2 ^ bit)) % 2 = 0 THEN 1 ELSE -1]]

gradient_get2(index) == Gradients2[(index % Len(Gradients2)) + 1]
gradient_get3(index) == Gradients3[(index % Len(Gradients3)) + 1]
gradient_get4(index) == Gradients4[(index % Len(Gradients4)) + 1]

(* "reduce modulo period": the residue in 0..b-1; an integer remainder by
   zero panics *)
ModIsize(a, b) == IF b = 0 THEN Panic ELSE Ok(a % b)

dot2(a, b) == a[1] * b[1] + a[2] * b[2]
dot3(a, b) == a[1] * b[1] + a[2] * b[2] + a[3] * b[3]
dot4(a, b) == a[1] * b[1] + a[2] * b[2] + a[3] * b[3] + a[4] * b[4]
pow4(x) == x * x * x * x

-----------------------------------------------------------------------------
(* Perlin::get, 2, 3 and 4 dimensions.  Distances are in units of 1/PQ, attn in
   units of 1/PQ^2, a surflet in units of 1/PQ^9. *)

(* T::floor of a coordinate, as a lattice integer *)
Floor(c) == c \div PQ
(* point - floored *)
NearDistance(c) == c - PQ * Floor(c)
(* near_distance - 1 *)
FarDistance(c) == NearDistance(c) - PQ

(* perlin.rs 77-82 with the attenuation test left out *)
surflet2_no_test(perm_table, corner, distance) ==
    pow4(PQ * PQ - dot2(distance, distance))
        * dot2(distance, gradient_get2(PermutationTable_get2(perm_table, corner)))

surflet2(perm_table, corner, distance) ==
    LET attn == PQ * PQ - dot2(distance, distance)
    IN  IF attn > 0
        THEN pow4(attn) * dot2(distance,
                               gradient_get2(PermutationTable_get2(perm_table, corner)))
        ELSE 0

surflet3(perm_table, corner, distance) ==
    LET attn == PQ * PQ - dot3(distance, distance)
    IN  IF attn > 0
        THEN pow4(attn) * dot3(distance,
                               gradient_get3(PermutationTable_get3(perm_table, corner)))
        ELSE 0

surflet4(perm_table, corner, distance) ==
    LET attn == PQ * PQ - dot4(distance, distance)
    IN  IF attn > 0
        THEN pow4(attn) * dot4(distance,
                               gradient_get4(PermutationTable_get4(perm_table, corner)))
        ELSE 0

(* one axis of lines 89-99 / 141-151 / 205-215: the near and far corner of a
   floored coordinate *)
corner_axis_near_unreduced(self, floored) ==
    IF self.enable_period
    THEN LET far == ModIsize(floored + 1, self.period)
         IN  IF ~far.ok THEN Panic
             ELSE [ok |-> TRUE, near |-> floored, far |-> far.val]
    ELSE [ok |-> TRUE, near |-> floored, far |-> floored + 1]

corner_axis(self, floored) ==
    IF self.enable_period
    THEN LET near == ModIsize(floored, self.period)
         IN  IF ~near.ok THEN Panic
             ELSE LET far == ModIsize(near.val + 1, self.period)
                  IN  [ok |-> TRUE, near |-> near.val, far |-> far.val]
    ELSE [ok |-> TRUE, near |-> floored, far |-> floored + 1]

(* (near_corner, far_corner) of a point of any dimension *)
corners(self, p) ==
    LET c == [i \in DOMAIN p |-> corner_axis(self, Floor(p[i]))]
    IN  IF \E i \in DOMAIN p : ~c[i].ok THEN Panic
        ELSE [ok |-> TRUE,
              near |-> [i \in DOMAIN p |-> c[i].near],
              far |-> [i \in DOMAIN p |-> c[i].far]]

near_distance(p) == [i \in DOMAIN p |-> NearDistance(p[i])]
far_distance(p) == [i \in DOMAIN p |-> FarDistance(p[i])]

(* the sum times the scaling constant of the dimension: the value is
   sum * K(dim) / PQ^9 with K(2) = 3.1604938271604937,
   K(3) = 3.8898553255531074 and K(4) = 4.424369240215691 *)
Scaled(dim, sum) == [dim |-> dim, sum |-> sum]
Aborted(dim) == [ok |-> FALSE, val |-> Scaled(dim, 0)]

(* perlin.rs 101-115 with the far corner of the first axis paired with the
   near distance of that axis *)
Perlin_get2_mismatched(self, p) ==
    LET nd == near_distance(p)
        fd == far_distance(p)
        c == corners(self, p)
    IN  IF ~c.ok THEN Aborted(2)
        ELSE LET nc == c.near
                 fc == c.far
                 f00 == surflet2(self.perm_table, <<nc[1], nc[2]>>, <<nd[1], nd[2]>>)
                 f10 == surflet2(self.perm_table, <<fc[1], nc[2]>>, <<nd[1], nd[2]>>)
                 f01 == surflet2(self.perm_table, <<nc[1], fc[2]>>, <<nd[1], fd[2]>>)
                 f11 == surflet2(self.perm_table, <<fc[1], fc[2]>>, <<fd[1], fd[2]>>)
             IN  Ok(Scaled(2, f00 + f10 + f01 + f11))

Perlin_get2(self, p) ==
    LET nd == near_distance(p)
        fd == far_distance(p)
        c == corners(self, p)
    IN  IF ~c.ok THEN Aborted(2)
        ELSE LET nc == c.near
                 fc == c.far
                 f00 == surflet2(self.perm_table, <<nc[1], nc[2]>>, <<nd[1], nd[2]>>)
                 f10 == surflet2(self.perm_table, <<fc[1], nc[2]>>, <<fd[1], nd[2]>>)
                 f01 == surflet2(self.perm_table, <<nc[1], fc[2]>>, <<nd[1], fd[2]>>)
                 f11 == surflet2(self.perm_table, <<fc[1], fc[2]>>, <<fd[1], fd[2]>>)
             IN  Ok(Scaled(2, f00 + f10 + f01 + f11))

Perlin_get3(self, p) ==
    LET nd == near_distance(p)
        fd == far_distance(p)
        c == corners(self, p)
    IN  IF ~c.ok THEN Aborted(3)
        ELSE LET nc == c.near
                 fc == c.far
                 t == self.perm_table
                 f000 == surflet3(t, <<nc[1], nc[2], nc[3]>>, <<nd[1], nd[2], nd[3]>>)
                 f100 == surflet3(t, <<fc[1], nc[2], nc[3]>>, <<fd[1], nd[2], nd[3]>>)
                 f010 == surflet3(t, <<nc[1], fc[2], nc[3]>>, <<nd[1], fd[2], nd[3]>>)
                 f110 == surflet3(t, <<fc[1], fc[2], nc[3]>>, <<fd[1], fd[2], nd[3]>>)
                 f001 == surflet3(t, <<nc[1], nc[2], fc[3]>>, <<nd[1], nd[2], fd[3]>>)
                 f101 == surflet3(t, <<fc[1], nc[2], fc[3]>>, <<fd[1], nd[2], fd[3]>>)
                 f011 == surflet3(t, <<nc[1], fc[2], fc[3]>>, <<nd[1], fd[2], fd[3]>>)
                 f111 == surflet3(t, <<fc[1], fc[2], fc[3]>>, <<fd[1], fd[2], fd[3]>>)
             IN  Ok(Scaled(3, f000 + f100 + f010 + f110 + f001 + f101 + f011 + f111))

Perlin_get4(self, p) ==
    LET nd == near_distance(p)
        fd == far_distance(p)
        c == corners(self, p)
    IN  IF ~c.ok THEN Aborted(4)
        ELSE LET nc == c.near
                 fc == c.far
                 t == self.perm_table
                 f0000 == surflet4(t, <<nc[1], nc[2], nc[3], nc[4]>>,
                                      <<nd[1], nd[2], nd[3], nd[4]>>)
                 f1000 == surflet4(t, <<fc[1], nc[2], nc[3], nc[4]>>,
                                      <<fd[1], nd[2], nd[3], nd[4]>>)
                 f0100 == surflet4(t, <<nc[1], fc[2], nc[3], nc[4]>>,
                                      <<nd[1], fd[2], nd[3], nd[4]>>)
                 f1100 == surflet4(t, <<fc[1], fc[2], nc[3], nc[4]>>,
                                      <<fd[1], fd[2], nd[3], nd[4]>>)
                 f0010 == surflet4(t, <<nc[1], nc[2], fc[3], nc[4]>>,
                                      <<nd[1], nd[2], fd[3], nd[4]>>)
                 f1010 == surflet4(t, <<fc[1], nc[2], fc[3], nc[4]>>,
                                      <<fd[1], nd[2], fd[3], nd[4]>>)
                 f0110 == surflet4(t, <<nc[1], fc[2], fc[3], nc[4]>>,
                                      <<nd[1], fd[2], fd[3], nd[4]>>)
                 f1110 == surflet4(t, <<fc[1], fc[2], fc[3], nc[4]>>,
                                      <<fd[1], fd[2], fd[3], nd[4]>>)
                 f0001 == surflet4(t, <<nc[1], nc[2], nc[3], fc[4]>>,
                                      <<nd[1], nd[2], nd[3], fd[4]>>)
                 f1001 == surflet4(t, <<fc[1], nc[2], nc[3], fc[4]>>,
                                      <<fd[1], nd[2], nd[3], fd[4]>>)
                 f0101 == surflet4(t, <<nc[1], fc[2], nc[3], fc[4]>>,
                                      <<nd[1], fd[2], nd[3], fd[4]>>)
                 f1101 == surflet4(t, <<fc[1], fc[2], nc[3], fc[4]>>,
                                      <<fd[1], fd[2], nd[3], fd[4]>>)
                 f0011 == surflet4(t, <<nc[1], nc[2], fc[3], fc[4]>>,
                                      <<nd[1], nd[2], fd[3], fd[4]>>)
                 f1011 == surflet4(t, <<fc[1], nc[2], fc[3], fc[4]>>,
                                      <<fd[1], nd[2], fd[3], fd[4]>>)
                 f0111 == surflet4(t, <<nc[1], fc[2], fc[3], fc[4]>>,
                                      <<nd[1], fd[2], fd[3], fd[4]>>)
                 f1111 == surflet4(t, <<fc[1], fc[2], fc[3], fc[4]>>,
                                      <<fd[1], fd[2], fd[3], fd[4]>>)
             IN  Ok(Scaled(4, f0000 + f1000 + f0100 + f1100 + f0010 + f1010 + f0110 + f1110
                              + f0001 + f1001 + f0101 + f1101 + f0011 + f1011 + f0111 + f1111))

(* NoiseModule::get on a Perlin, by the dimension of the point *)
Perlin_get(self, p) ==
    IF Len(p) = 2 THEN Perlin_get2(self, p)
    ELSE IF Len(p) = 3 THEN Perlin_get3(self, p)
    ELSE Perlin_get4(self, p)

-----------------------------------------------------------------------------
(* fractals/mod.rs *)

(* seed + x: panics in a build with overflow checks, wraps otherwise *)
SeedPlus(seed, x) ==
    IF seed + x > UsizeMax /\ overflow_checks THEN Panic
    ELSE Ok(UsizeAdd(seed, x))

RECURSIVE build_sources_loop(_, _, _, _)
build_sources_loop(seed, octaves, x, sources) ==
    IF x >= octaves THEN Ok(sources)
    ELSE LET s == SeedPlus(seed, x)
         IN  IF ~s.ok THEN Panic
             ELSE build_sources_loop(seed, octaves, x + 1,
                      Append(sources, Perlin_set_seed(Perlin_new, s.val)))

build_sources(seed, octaves) == build_sources_loop(seed, octaves, 0, <<>>)

RECURSIVE build_sources_periodic_loop(_, _, _, _, _, _)
build_sources_periodic_loop(seed, octaves, x, period, lacunarity, sources) ==
    IF x >= octaves THEN Ok(sources)
    ELSE LET s == SeedPlus(seed, x)
         IN  IF ~s.ok THEN Panic
             ELSE LET src == Perlin_set_period(Perlin_set_seed(Perlin_new, s.val), period)
                      np == CastFloatToUsize(FloatMul(CastUsizeToFloat(period), lacunarity))
                  IN  IF ~np.ok THEN Panic
                      ELSE build_sources_periodic_loop(seed, octaves, x + 1, np.val,
                               lacunarity, Append(sources, src))

build_sources_periodic(seed, octaves, period, lacunarity) ==
    build_sources_periodic_loop(seed, octaves, 0, period, lacunarity, <<>>)

-----------------------------------------------------------------------------
(* RidgedMulti: fractals/ridgedmulti.rs.  A builder call returns
   [ok, val, built]: the new value and the number of source-vector rebuilds
   it made, or a panic. *)

(* `RidgedMulti { <fields>, sources: <b>, ..self }`: the value with the
   rebuilt sources b, unless the rebuild panicked *)
Rebuilt(v, b) ==
    IF b.ok THEN [ok |-> TRUE, val |-> [v EXCEPT !.sources = b.val], built |-> 1]
    ELSE [ok |-> FALSE, built |-> 1]

(* a value returned without a rebuild *)
Kept(v) == [ok |-> TRUE, val |-> v, built |-> 0]

(* new() as it would be with the sources seeded from 1 *)
RidgedMulti_new_seeded_from_one ==
    [seed |-> DEFAULT_RIDGED_SEED,
     octaves |-> DEFAULT_RIDGED_OCTAVE_COUNT,
     frequency |-> DEFAULT_RIDGED_FREQUENCY,
     lacunarity |-> DEFAULT_RIDGED_LACUNARITY,
     persistence |-> DEFAULT_RIDGED_PERSISTENCE,
     gain |-> DEFAULT_RIDGED_GAIN,
     period |-> DEFAULT_RIDGED_PERIOD,
     enable_period |-> FALSE,
     sources |-> build_sources(1, DEFAULT_RIDGED_OCTAVE_COUNT).val]

RidgedMulti_new ==
    [seed |-> DEFAULT_RIDGED_SEED,
     octaves |-> DEFAULT_RIDGED_OCTAVE_COUNT,
     frequency |-> DEFAULT_RIDGED_FREQUENCY,
     lacunarity |-> DEFAULT_RIDGED_LACUNARITY,
     persistence |-> DEFAULT_RIDGED_PERSISTENCE,
     gain |-> DEFAULT_RIDGED_GAIN,
     period |-> DEFAULT_RIDGED_PERIOD,
     enable_period |-> FALSE,
     sources |-> build_sources(DEFAULT_RIDGED_SEED, DEFAULT_RIDGED_OCTAVE_COUNT).val]

(* set_seed as it would be if the periodic branch kept the old sources *)
RidgedMulti_set_seed_stale(self, seed) ==
    IF self.seed = seed THEN Kept(self)
    ELSE IF ~self.enable_period
    THEN Rebuilt([self EXCEPT !.seed = seed], build_sources(seed, self.octaves))
    ELSE Kept([self EXCEPT !.seed = seed])

RidgedMulti_set_seed(self, seed) ==
    IF self.seed = seed THEN Kept(self)
    ELSE IF ~self.enable_period
    THEN Rebuilt([self EXCEPT !.seed = seed], build_sources(seed, self.octaves))
    ELSE Rebuilt([self EXCEPT !.seed = seed],
                 build_sources_periodic(seed, self.octaves, self.period,
                                        self.lacunarity))

(* the clamp without its lower arm *)
ClampOctaves_no_lower(octaves) ==
    IF octaves > RIDGED_MAX_OCTAVES THEN RIDGED_MAX_OCTAVES
    ELSE octaves

(* the clamp of set_octaves, lines 134-140 (reached when the request differs
   from the held count) *)
ClampOctaves(octaves) ==
    IF octaves > RIDGED_MAX_OCTAVES THEN RIDGED_MAX_OCTAVES
    ELSE IF octaves < 1 THEN 1
    ELSE octaves

(* set_octaves as it would be if it rebuilt the sources with the old count *)
RidgedMulti_set_octaves_stale(self, octaves) ==
    IF self.octaves = octaves THEN Kept(self)
    ELSE LET o == ClampOctaves(octaves)
         IN  IF ~self.enable_period
             THEN Rebuilt([self EXCEPT !.octaves = o],
                          build_sources(self.seed, self.octaves))
             ELSE Rebuilt([self EXCEPT !.octaves = o],
                          build_sources_periodic(self.seed, self.octaves, self.period,
                                                 self.lacunarity))

RidgedMulti_set_octaves(self, octaves) ==
    IF self.octaves = octaves THEN Kept(self)
    ELSE LET o == ClampOctaves(octaves)
         IN  IF ~self.enable_period
             THEN Rebuilt([self EXCEPT !.octaves = o], build_sources(self.seed, o))
             ELSE Rebuilt([self EXCEPT !.octaves = o],
                          build_sources_periodic(self.seed, o, self.period,
                                                 self.lacunarity))

RidgedMulti_set_frequency(self, frequency) ==
    Kept([self EXCEPT !.frequency = frequency])

(* set_lacunarity as it would be if it never rebuilt the sources *)
RidgedMulti_set_lacunarity_stale(self, lacunarity) ==
    Kept([self EXCEPT !.lacunarity = lacunarity])

RidgedMulti_set_lacunarity(self, lacunarity) ==
    IF ~self.enable_period THEN Kept([self EXCEPT !.lacunarity = lacunarity])
    ELSE Rebuilt([self EXCEPT !.lacunarity = lacunarity],
                 build_sources_periodic(self.seed, self.octaves, self.period,
                                        lacunarity))

RidgedMulti_set_period(self, period) ==
    Rebuilt([self EXCEPT !.period = period, !.enable_period = TRUE],
            build_sources_periodic(self.seed, self.octaves, period,
                                   self.lacunarity))

RidgedMulti_set_persistence(self, persistence) ==
    Kept([self EXCEPT !.persistence = persistence])

(* set_gain as it would be if it rebuilt the sources the non-periodic way *)
RidgedMulti_set_gain_rebuilds(self, gain) ==
    Rebuilt([self EXCEPT !.gain = gain], build_sources(self.seed, self.octaves))

RidgedMulti_set_gain(self, gain) ==
    Kept([self EXCEPT !.gain = gain])

-----------------------------------------------------------------------------
(* Float arithmetic of RidgedMulti::get.  A value of T is an integer count
   of 1/One; f32 holds the multiples of Sub, f64 every integer.  An
   operation rounds its exact result to the nearest value of its type. *)

(* the integer nearest to n / d (d > 0), ties to even *)
RoundDiv(n, d) ==
    LET q == n \div d
        r == n % d
    IN  IF 2 * r < d THEN q
        ELSE IF 2 * r > d THEN q + 1
        ELSE IF q % 2 = 0 THEN q ELSE q + 1

Step(t) == IF t = "f32" THEN Sub ELSE 1
Representable(v, t) == v % Step(t) = 0

(* the value of type t nearest to n / d *)
RoundTo(n, d, t) == Step(t) * RoundDiv(n, d * Step(t))

FloatMulT(a, b, t) == RoundTo(a * b, One, t)
FloatAbs(a) == IF a < 0 THEN -a ELSE a

(* math::cast::<T, f32>: the nearest f32 *)
CastToF32(v) == RoundTo(v, 1, "f32")

(* persistence.powi(x) *)
RECURSIVE powi(_, _, _)
powi(a, n, t) == IF n = 0 THEN One ELSE FloatMulT(powi(a, n - 1, t), a, t)

(* result.mul_add(cast(1.0 / 3.0), -1): one rounding of result * third - 1 *)
mul_add_third(result, t) ==
    LET third == RoundTo(One, 3, t)
    IN  RoundTo(result * third - One * One, One, t)

(* math::mul2 / mul3 / mul4: every coordinate times the factor *)
mul_point(p, factor, t) == [i \in DOMAIN p |-> FloatMulT(p[i], factor, t)]

(* a point of T coordinates in the units of the Perlin kernel (exact for the
   points evaluated here, which are multiples of One / PQ) *)
ToLattice(p) == [i \in DOMAIN p |-> (p[i] * PQ) \div One]

(* the scaling constant of perlin.rs 115 / 179 / 272-274, to three decimals,
   in thousandths *)
ScaleMilli(dim) == IF dim = 2 THEN 3160 ELSE IF dim = 3 THEN 3890 ELSE 4424

(* the scaled surflet sum as a value of T *)
PerlinValue(v, t) == RoundTo(v.sum * ScaleMilli(v.dim) * One, 1000 * PQ ^ 9, t)

(* self.sources[x].get(point) *)
Source_get(src, p, t) ==
    LET r == Perlin_get(src, ToLattice(p))
    IN  IF r.ok THEN Ok(PerlinValue(r.val, t)) ELSE Panic

(* the clamp of lines 219-224 *)
clamp_weight(weight) ==
    IF CastToF32(weight) > One THEN One
    ELSE IF CastToF32(weight) < 0 THEN 0
    ELSE weight

(* one iteration of the octave loop, lines 200-234, with the value s that
   source x returned *)
octave_powi_next(self, e, s, t) ==
    LET signal1 == One - FloatAbs(s)
        signal2 == FloatMulT(signal1, signal1, t)
        signal3 == FloatMulT(signal2, e.weight, t)
        weight1 == FloatMulT(signal3, self.gain, t)
        signal4 == FloatMulT(signal3, powi(self.persistence, e.x + 1, t), t)
    IN  [e EXCEPT !.weight = clamp_weight(weight1),
                  !.result = e.result + signal4,
                  !.pt = mul_point(e.pt, self.lacunarity, t),
                  !.x = e.x + 1,
                  !.src = Append(e.src, s)]

octave(self, e, s, t) ==
    LET signal1 == One - FloatAbs(s)
        signal2 == FloatMulT(signal1, signal1, t)
        signal3 == FloatMulT(signal2, e.weight, t)
        weight1 == FloatMulT(signal3, self.gain, t)
        signal4 == FloatMulT(signal3, powi(self.persistence, e.x, t), t)
    IN  [e EXCEPT !.weight = clamp_weight(weight1),
                  !.result = e.result + signal4,
                  !.pt = mul_point(e.pt, self.lacunarity, t),
                  !.x = e.x + 1,
                  !.src = Append(e.src, s)]

(* the evaluation in progress: the point passed in (arg), the locals of get
   (x, point, result, weight), the values the sources returned so far (src)
   and the value returned (value) *)
Idle == [pc |-> "idle", arg |-> <<>>, x |-> 0, pt |-> <<>>, result |-> 0,
         weight |-> One, src |-> <<>>, value |-> 0]

Unseen == [state |-> "none"]

-----------------------------------------------------------------------------
(* The builder chain: RidgedMulti::new() followed by any setters *)

Init ==
    /\ rm = RidgedMulti_new
    /\ overflow_checks \in BOOLEAN
    /\ panicked = FALSE
    /\ last = [op |-> "new", arg |-> 0, same |-> FALSE, built |-> 1]
    /\ perlin = Perlin_new
    /\ point = <<0, 0>>
    /\ out = [state |-> "none"]
    /\ float = "f32"
    /\ ev = Idle
    /\ seen = Unseen

(* `same`: the call asks for the value the receiver already holds *)
Call(op, arg, same, result) ==
    LET r == result
    IN  /\ ~panicked
        /\ last' = [op |-> op, arg |-> arg, same |-> same, built |-> r.built]
        /\ IF r.ok THEN rm' = r.val /\ panicked' = FALSE
                   ELSE rm' = rm /\ panicked' = TRUE
        /\ UNCHANGED overflow_checks
        /\ UNCHANGED pvars
        /\ UNCHANGED evars

SetSeed ==
    \E seed \in Seeds :
        Call("set_seed", seed, seed = rm.seed, RidgedMulti_set_seed(rm, seed))

SetOctaves ==
    \E octaves \in OctaveRequests :
        Call("set_octaves", octaves, ClampOctaves(octaves) = rm.octaves,
             RidgedMulti_set_octaves(rm, octaves))

SetFrequency ==
    \E frequency \in Frequencies :
        Call("set_frequency", frequency, frequency = rm.frequency,
             RidgedMulti_set_frequency(rm, frequency))

SetLacunarity ==
    \E lacunarity \in Lacunarities :
        Call("set_lacunarity", lacunarity, lacunarity = rm.lacunarity,
             RidgedMulti_set_lacunarity(rm, lacunarity))

SetPeriod ==
    \E period \in Periods :
        Call("set_period", period, period = rm.period /\ rm.enable_period,
             RidgedMulti_set_period(rm, period))

SetPersistence ==
    \E persistence \in Persistences :
        Call("set_persistence", persistence, persistence = rm.persistence,
             RidgedMulti_set_persistence(rm, persistence))

SetGain ==
    \E gain \in Gains :
        Call("set_gain", gain, gain = rm.gain, RidgedMulti_set_gain(rm, gain))

Next ==
    \/ SetSeed
    \/ SetOctaves
    \/ SetFrequency
    \/ SetLacunarity
    \/ SetPeriod
    \/ SetPersistence
    \/ SetGain

Spec == Init /\ [][Next]_vars

-----------------------------------------------------------------------------
(* A Perlin value: Perlin::new() followed by any setters, evaluated at
   points of 2, 3 and 4 dimensions.  The program is sequential: a call of get
   returns (PerlinReturn) before the next call is made. *)

InitPerlin ==
    /\ rm = RidgedMulti_new
    /\ overflow_checks = FALSE
    /\ panicked = FALSE
    /\ last = [op |-> "new", arg |-> 0, same |-> FALSE, built |-> 1]
    /\ perlin = Perlin_new
    /\ point = <<0, 0>>
    /\ out = [state |-> "none"]
    /\ float = "f32"
    /\ ev = Idle
    /\ seen = Unseen

PerlinSetSeed ==
    \E seed \in PerlinSeeds :
        /\ out.state = "none"
        /\ perlin' = Perlin_set_seed(perlin, seed)
        /\ point' = <<0, 0>>
        /\ out' = [state |-> "none"]
        /\ UNCHANGED rvars
        /\ UNCHANGED evars

PerlinSetPeriod ==
    \E period \in PerlinPeriods :
        /\ out.state = "none"
        /\ perlin' = Perlin_set_period(perlin, period)
        /\ point' = <<0, 0>>
        /\ out' = [state |-> "none"]
        /\ UNCHANGED rvars
        /\ UNCHANGED evars

Evaluate(p) ==
    LET r == Perlin_get(perlin, p)
    IN  /\ out.state = "none"
        /\ point' = p
        /\ out' = [state |-> "done", ok |-> r.ok, val |-> r.val]
        /\ UNCHANGED <<perlin, rm, overflow_checks, panicked, last>>
        /\ UNCHANGED evars

PerlinGet2 == \E p \in Points2 : Evaluate(p)

PerlinGet3 == \E p \in Points3 : Evaluate(p)

PerlinGet4 == \E p \in Points4 : Evaluate(p)

(* the caller takes the value (or the program has aborted) *)
PerlinReturn ==
    /\ out.state = "done"
    /\ out.ok
    /\ point' = <<0, 0>>
    /\ out' = [state |-> "none"]
    /\ UNCHANGED <<perlin, rm, overflow_checks, panicked, last>>
    /\ UNCHANGED evars

NextPerlin ==
    \/ PerlinSetSeed
    \/ PerlinSetPeriod
    \/ PerlinGet2
    \/ PerlinGet3
    \/ PerlinGet4
    \/ PerlinReturn

SpecPerlin == InitPerlin /\ [][NextPerlin]_vars

-----------------------------------------------------------------------------
(* RidgedMulti<T>::get, one octave at a time, on a value configured by
   set_octaves, set_gain, set_persistence and set_lacunarity; each source is
   evaluated by the Perlin kernel above *)

InitEval ==
    /\ rm = RidgedMulti_new
    /\ overflow_checks = FALSE
    /\ panicked = FALSE
    /\ last = [op |-> "new", arg |-> 0, same |-> FALSE, built |-> 1]
    /\ perlin = Perlin_new
    /\ point = <<0, 0>>
    /\ out = [state |-> "none"]
    /\ float \in FloatTypes
    /\ ev = Idle
    /\ seen = Unseen

Configure(r) ==
    /\ ev.pc = "idle"
    /\ r.ok
    /\ rm' = r.val
    /\ seen' = Unseen
    /\ UNCHANGED <<overflow_checks, panicked, last, float, ev>>
    /\ UNCHANGED pvars

EvalSetOctaves ==
    \E octaves \in EvalOctaves : Configure(RidgedMulti_set_octaves(rm, octaves))

EvalSetGain ==
    \E gain \in EvalGains :
        /\ Representable(gain, float)
        /\ Configure(RidgedMulti_set_gain(rm, gain))

EvalSetPersistence ==
    \E persistence \in EvalPersistences :
        Configure(RidgedMulti_set_persistence(rm, persistence))

EvalSetLacunarity ==
    \E lacunarity \in EvalLacunarities :
        Configure(RidgedMulti_set_lacunarity(rm, lacunarity))

(* lines 195-198 with the weight and result of the remembered call carried
   over *)
EvalBegin_resumes ==
    \E dim \in EvalDims, c \in EvalCoords :
        /\ ev.pc = "idle"
        /\ ev' = [pc |-> "loop", arg |-> [i \in 1 .. dim |-> c], x |-> 0,
                  pt |-> mul_point([i \in 1 .. dim |-> c], rm.frequency, float),
                  result |-> IF seen.state = "kept" THEN seen.result ELSE 0,
                  weight |-> IF seen.state = "kept" THEN seen.weight ELSE One,
                  src |-> <<>>, value |-> 0]
        /\ UNCHANGED <<rvars, float, seen>>
        /\ UNCHANGED pvars

(* lines 195-198: result = 0, weight = 1, point = point * frequency *)
EvalBegin ==
    \E dim \in EvalDims, c \in EvalCoords :
        /\ ev.pc = "idle"
        /\ ev' = [pc |-> "loop", arg |-> [i \in 1 .. dim |-> c], x |-> 0,
                  pt |-> mul_point([i \in 1 .. dim |-> c], rm.frequency, float),
                  result |-> 0, weight |-> One, src |-> <<>>, value |-> 0]
        /\ UNCHANGED <<rvars, float, seen>>
        /\ UNCHANGED pvars

(* lines 200-234: the body of `for x in 0..self.octaves` *)
EvalOctave ==
    /\ ev.pc = "loop"
    /\ ev.x < rm.octaves
    /\ ev.x + 1 \in DOMAIN rm.sources
    /\ LET s == Source_get(rm.sources[ev.x + 1], ev.pt, float)
       IN  IF s.ok THEN ev' = octave(rm, ev, s.val, float)
           ELSE ev' = [ev EXCEPT !.pc = "aborted"]
    /\ UNCHANGED <<rvars, float, seen>>
    /\ UNCHANGED pvars

(* line 237: scale and shift the result *)
EvalFinish ==
    /\ ev.pc = "loop"
    /\ ev.x >= rm.octaves
    /\ ev' = [ev EXCEPT !.pc = "done", !.value = mul_add_third(ev.result, float)]
    /\ UNCHANGED <<rvars, float, seen>>
    /\ UNCHANGED pvars

(* what the history keeps of a finished call *)
Remembered(e) == [state |-> "kept", arg |-> e.arg, value |-> e.value,
            result |-> e.result, weight |-> e.weight]

(* the caller takes the value; the history keeps one call per value of the
   configuration, any one of them *)
EvalReturn ==
    /\ ev.pc = "done"
    /\ ev' = Idle
    /\ seen' \in (IF seen.state = "none" THEN {seen, Remembered(ev)} ELSE {seen})
    /\ UNCHANGED <<rvars, float>>
    /\ UNCHANGED pvars

NextEval ==
    \/ EvalSetOctaves
    \/ EvalSetGain
    \/ EvalSetPersistence
    \/ EvalSetLacunarity
    \/ EvalBegin
    \/ EvalOctave
    \/ EvalFinish
    \/ EvalReturn

SpecEval == InitEval /\ [][NextEval]_vars

-----------------------------------------------------------------------------
(* The setters that change one field, called on RidgedMulti values of any
   lacunarity and period, periodic or not, and the two setters of Perlin *)

InitFrame == Init /\ ~overflow_checks

NextFrame ==
    \/ SetFrequency
    \/ SetPersistence
    \/ SetGain
    \/ SetLacunarity
    \/ SetPeriod
    \/ PerlinSetSeed
    \/ PerlinSetPeriod

SpecFrame == InitFrame /\ [][NextFrame]_vars

-----------------------------------------------------------------------------
(* Properties of the builder chain *)

(* C1: a set_octaves(n) call that returns leaves the octave count at
   min(max(n, 1), 32): below 1 gives 1, above 32 gives 32, else n. *)
C1_OctaveClamp ==
    (last.op = "set_octaves" /\ ~panicked) =>
        rm.octaves = (IF last.arg < 1 THEN 1
                      ELSE IF last.arg > 32 THEN 32 ELSE last.arg)

C1_Witness ==
    /\ last.op = "set_octaves" /\ last.arg = 1000 /\ ~panicked
    /\ rm.octaves = 32 /\ last.built = 1

(* C2: the source vector always holds exactly `octaves` Perlin instances,
   so indices 0..octaves-1 are all within it. *)
C2_SourcesLength ==
    /\ Len(rm.sources) = rm.octaves
    /\ \A x \in 0 .. rm.octaves - 1 : x + 1 \in DOMAIN rm.sources

C2_Witness ==
    /\ last.op = "set_octaves" /\ last.built = 1 /\ ~panicked
    /\ rm.enable_period /\ rm.octaves = 3 /\ Len(rm.sources) = 3

(* C3: the sources are never stale with respect to the seed: source i is a
   Perlin built with seed (current seed + i), in usize arithmetic. *)
C3_SourcesSeeded ==
    \A x \in 0 .. rm.octaves - 1 :
        /\ x + 1 \in DOMAIN rm.sources
        /\ rm.sources[x + 1].seed = (rm.seed + x) % 2^UsizeBits
        /\ rm.sources[x + 1].perm_table =
               PermutationTable_new(AsU32((rm.seed + x) % 2^UsizeBits))

C3_Witness ==
    /\ last.op = "set_seed" /\ last.built = 1 /\ ~panicked
    /\ rm.enable_period /\ rm.seed = 1 /\ rm.octaves = 3
    /\ rm.sources[3].seed = 3

(* C4 as claimed: once periodic, source i wraps with period exactly
   period * lacunarity^i, i.e. source 0 has the period and each next period
   is the previous one times lacunarity, for every lacunarity. *)
C4_PeriodExactlyScaled ==
    rm.enable_period =>
        \A i \in 1 .. rm.octaves :
            /\ rm.sources[i].enable_period
            /\ i = 1 => rm.sources[i].period = rm.period
            /\ i > 1 => rm.sources[i].period * One =
                            rm.sources[i - 1].period * rm.lacunarity

(* C4 amended: once periodic, every source wraps; source 0 has the current
   period and each next source has the previous period times the current
   lacunarity, truncated to an integer. *)
C4_PeriodTruncScaled ==
    rm.enable_period =>
        \A i \in 1 .. rm.octaves :
            /\ rm.sources[i].enable_period
            /\ i = 1 => rm.sources[i].period = rm.period
            /\ i > 1 =>
                 LET prev == rm.sources[i - 1].period * rm.lacunarity
                     p == rm.sources[i].period
                 IN  IF prev >= 0
                     THEN p * One <= prev /\ prev < (p + 1) * One
                     ELSE p = 0 /\ prev > -One

C4_Witness ==
    /\ last.op = "set_lacunarity" /\ last.built = 1 /\ ~panicked
    /\ rm.enable_period /\ rm.period = 3 /\ rm.octaves = 3
    /\ rm.lacunarity * 2 = 3 * One
    /\ rm.sources[2].period = 4 /\ rm.sources[3].period = 6

(* C5 as claimed: no builder call aborts. *)
C5_SettersNeverFail == ~panicked

(* C8 as claimed: a set_seed, set_octaves, set_lacunarity or set_period call
   asking for the value already held (set_octaves: a request that clamps to
   the held count) returns without rebuilding the source vector. *)
C8_NoRebuildOnSameValue ==
    (/\ last.op \in {"set_seed", "set_octaves", "set_lacunarity", "set_period"}
     /\ last.same) =>
        last.built = 0 /\ ~panicked

-----------------------------------------------------------------------------
(* Properties of Perlin evaluation *)

(* the point moved by k lattice units along one axis *)
Shifted(p, axis, k) == [p EXCEPT ![axis] = p[axis] + k * PQ]

IsLatticePoint(p) == \A i \in DOMAIN p : p[i] % PQ = 0

(* C6 as claimed: every evaluation returns a scalar; none aborts. *)
C6_EvaluationTotal == out.state = "done" => out.ok

(* C7: with periodic wrapping of period k >= 1, a point p and the point
   p + k along any axis have the same near and far corners and the same
   near and far distances, and evaluate to the same value. *)
C7_PeriodicTiling ==
    (out.state = "done" /\ perlin.enable_period /\ perlin.period >= 1) =>
        \A axis \in DOMAIN point :
            LET q == Shifted(point, axis, perlin.period)
            IN  /\ corners(perlin, q) = corners(perlin, point)
                /\ near_distance(q) = near_distance(point)
                /\ far_distance(q) = far_distance(point)
                /\ Perlin_get(perlin, q) = [ok |-> out.ok, val |-> out.val]

C7_Witness ==
    /\ out.state = "done" /\ out.ok
    /\ perlin.enable_period /\ perlin.period = 3
    /\ Len(point) = 3 /\ point[1] < 0 /\ point[1] % PQ # 0
    /\ out.val.sum # 0

(* C10: a Perlin evaluation at a point whose coordinates are all integers
   that returns a value returns exactly 0, for every seed, with or without
   periodic wrapping. *)
C10_ZeroAtLatticePoints ==
    (out.state = "done" /\ out.ok /\ IsLatticePoint(point)) => out.val.sum = 0

C10_Witness ==
    /\ out.state = "done" /\ out.ok /\ out.val.sum = 0
    /\ point = <<-PQ, PQ>>
    /\ perlin.enable_period /\ perlin.seed = 7

(* C13: new() gives the documented defaults.  Perlin::new(): seed 0, period
   256, not periodic.  RidgedMulti::new(): seed 0, 6 octaves, frequency 1,
   lacunarity 2, persistence 1, gain 2, period 256, not periodic, and 6
   sources that are non-periodic Perlins seeded 0..5. *)
C13_Defaults ==
    (last.op = "new") =>
        /\ perlin.seed = 0 /\ perlin.period = 256 /\ ~perlin.enable_period
        /\ perlin.perm_table = PermutationTable_new(0)
        /\ rm.seed = 0 /\ rm.octaves = 6
        /\ rm.frequency = One /\ rm.lacunarity = 2 * One
        /\ rm.persistence = One /\ rm.gain = 2 * One
        /\ rm.period = 256 /\ ~rm.enable_period
        /\ Len(rm.sources) = 6
        /\ \A i \in 0 .. 5 :
               /\ rm.sources[i + 1].seed = i
               /\ rm.sources[i + 1].perm_table = PermutationTable_new(i)
               /\ ~rm.sources[i + 1].enable_period

C13_Witness ==
    /\ last.op = "new" /\ ~panicked
    /\ rm = RidgedMulti_new /\ perlin = Perlin_new
    /\ overflow_checks

(* C15: set_frequency, set_persistence and set_gain return a value that
   differs from the receiver in the named field only (seed, octaves,
   lacunarity, period, the periodic flag and the sources are the same);
   Perlin's set_period keeps the seed and the table, and Perlin's set_seed
   keeps the period and the periodic flag. *)
C15_SettersChangeNamedField ==
    [][/\ SetFrequency =>
              (~panicked' /\ rm' = [rm EXCEPT !.frequency = rm'.frequency])
       /\ SetPersistence =>
              (~panicked' /\ rm' = [rm EXCEPT !.persistence = rm'.persistence])
       /\ SetGain =>
              (~panicked' /\ rm' = [rm EXCEPT !.gain = rm'.gain])
       /\ PerlinSetPeriod =>
              (perlin'.seed = perlin.seed /\ perlin'.perm_table = perlin.perm_table)
       /\ PerlinSetSeed =>
              (perlin'.period = perlin.period
                  /\ perlin'.enable_period = perlin.enable_period)]_vars

(* a periodic RidgedMulti after set_gain and a periodic, reseeded Perlin *)
C15_Witness ==
    /\ last.op = "set_gain" /\ ~panicked
    /\ rm.enable_period /\ rm.period = 3
    /\ rm.gain = One /\ rm.frequency = 2 * One /\ rm.persistence = One \div 2
    /\ perlin.enable_period /\ perlin.seed = 7

-----------------------------------------------------------------------------
(* Properties of RidgedMulti evaluation *)

(* C9 as claimed: the carried weight is 1 before the first octave and
   within [0, 1] at the end of every octave iteration. *)
C9_WeightWithinUnit ==
    /\ 0 <= ev.weight /\ ev.weight <= One
    /\ (ev.pc = "loop" /\ ev.x = 0) => ev.weight = One

(* C11: with one octave (and frequency 1) the value returned at p is
   (1 - |s|)^2 * (1/3) - 1, where s is what a Perlin with the seed of the
   configuration returns at p, and s is the only source output used: the
   value is the same for every gain, persistence and lacunarity. *)
C11_SingleOctaveValue ==
    (ev.pc = "done" /\ rm.octaves = 1 /\ rm.frequency = One) =>
        LET s == Source_get(Perlin_set_seed(Perlin_new, rm.seed), ev.arg, float).val
            ridge == One - FloatAbs(s)
        IN  /\ ev.src = <<s>>
            /\ ev.value = mul_add_third(FloatMulT(ridge, ridge, float), float)

(* one octave, a gain, persistence and lacunarity other than the defaults,
   and a source output other than 0 *)
C11_Witness ==
    /\ ev.pc = "done" /\ rm.octaves = 1 /\ rm.frequency = One
    /\ rm.gain = -One /\ rm.persistence = Half /\ rm.lacunarity = One
    /\ Len(ev.src) = 1 /\ ev.src[1] # 0
    /\ ev.value # mul_add_third(One, float)

(* C12: a step of an evaluation leaves the configuration (fields, sources
   and their tables) unchanged; every evaluation enters its first octave
   with weight 1 and result 0; and an evaluation returns the value an
   earlier evaluation of the same configuration at the same point returned,
   whatever evaluations came before or between. *)
C12_EvaluationReadOnly ==
    [][/\ (ev.pc # "idle" \/ ev'.pc # "idle") => (rm' = rm /\ float' = float)
       /\ (ev'.pc = "loop" /\ ev'.x = 0) => (ev'.weight = One /\ ev'.result = 0)
       /\ (ev'.pc = "done" /\ seen.state = "kept" /\ seen.arg = ev'.arg)
              => ev'.value = seen.value]_vars

(* a second evaluation at the point of a remembered one, over several
   octaves and with a source output other than 0 *)
C12_Witness ==
    /\ ev.pc = "done" /\ seen.state = "kept" /\ seen.arg = ev.arg
    /\ seen.value = ev.value
    /\ rm.octaves = 3 /\ ev.src[1] # 0
    /\ ev.value # mul_add_third(0, float)

-----------------------------------------------------------------------------
(* Properties of the surflet sums *)

(* one near/far choice per axis of a D-dimensional point *)
AxisChoices(dim) == [1 .. dim -> {"near", "far"}]

(* the near or the far value on every axis, as the choice says *)
Chosen(choice, near, far) ==
    [i \in DOMAIN choice |-> IF choice[i] = "far" THEN far[i] ELSE near[i]]

(* the contribution of the corner picked by a choice, with the distance
   picked by the same choice *)
MatchedSurflet(self, p, c, choice) ==
    LET corner == Chosen(choice, c.near, c.far)
        distance == Chosen(choice, near_distance(p), far_distance(p))
    IN  IF Len(p) = 2 THEN surflet2(self.perm_table, corner, distance)
        ELSE IF Len(p) = 3 THEN surflet3(self.perm_table, corner, distance)
        ELSE surflet4(self.perm_table, corner, distance)

RECURSIVE MatchedSum(_, _, _, _)
MatchedSum(self, p, c, choices) ==
    IF choices = {} THEN 0
    ELSE LET choice == CHOOSE ch \in choices : TRUE
         IN  MatchedSurflet(self, p, c, choice)
                 + MatchedSum(self, p, c, choices \ {choice})

(* C14: in 2, 3 and 4 dimensions the sum the kernel scales is the sum, over
   every near/far choice per axis taken exactly once, of the surflet of the
   corner that choice picks with the distance the same choice picks. *)
C14_SurfletsCoverMatchedChoices ==
    (out.state = "done" /\ out.ok) =>
        /\ Cardinality(AxisChoices(Len(point))) = 2 ^ Len(point)
        /\ out.val = Scaled(Len(point),
                            MatchedSum(perlin, point, corners(perlin, point),
                                       AxisChoices(Len(point))))

(* a 4-dimensional evaluation in which corners far on three axes contribute *)
C14_Witness ==
    /\ out.state = "done" /\ out.ok
    /\ Len(point) = 4
    /\ point[1] = 1 /\ point[2] = 1 /\ point[3] = 1 /\ point[4] = 0
    /\ perlin.enable_period
    /\ out.val.sum # 0

====
